---- MODULE Spec2Model ----
(***************************************************************************)
(* A model of torchio/transforms/augmentation/random_transform.py: the     *)
(* RandomTransform base class (seeding, range parsing, array/affine to     *)
(* SimpleITK conversion through a temporary NIfTI file).                   *)
(***************************************************************************)
EXTENDS Integers, Sequences, FiniteSets, TLC

\* ---------------------------------------------------------------- bounds
\* Python ints of the inputs range over -MaxInt..MaxInt.
MaxInt == 2
\* Sequences given to parse_range have 0..MaxLen elements.
MaxLen == 3
\* The states of the process-wide generator are 0..RngMod-1.
RngMod == 5
\* Seeds given to the constructor are None or 0..MaxSeed.
MaxSeed == 2
\* A sample makes the delegated augmentation draw 1..MaxDraws numbers.
MaxDraws == 2
\* __call__ is made at most MaxCalls times on each sample in a behaviour.
MaxCalls == 2

VARIABLES
    \* ---- parse_range / parse_degrees / parse_translation (pure functions)
    nums_range,   \* the argument given to the parse function
    name,         \* the name argument of parse_range
    parse_op,     \* which function was applied ("none" before the call)
    parse_out,    \* its outcome: a returned value or a raised exception
    \* ---- __init__ / __call__ / check_seed / get_params
    seed,         \* self.seed: None or an int
    generator,    \* state of torch's process-wide default generator
    pc,           \* position of the single thread of control
    sample,       \* argument of the __call__ in progress / last made
    events,       \* what the __call__ in progress / last made did, in order
    draws,        \* random numbers drawn by the dispatch of that __call__
    first_draws,  \* history: per sample, the draws of its first __call__
    calls,        \* history: per sample, the number of __call__ made on it
    gen_at_entry, \* history: generator state when the last __call__ began
    gp_out,       \* outcome of the last get_params() on the base class
    \* ---- nib_to_sitk
    fs,           \* names of the files that exist on the filesystem
    array_kind,   \* "tensor" or "ndarray": type of the array argument
    tmp_name,     \* f.name of the NamedTemporaryFile of the call, or None
    pending_exc,  \* exception propagating through the with block, or None
    nts_out       \* outcome of the last nib_to_sitk call

vars == << nums_range, name, parse_op, parse_out,
           seed, generator, pc, sample, events, draws, first_draws, calls,
           gen_at_entry, gp_out,
           fs, array_kind, tmp_name, pending_exc, nts_out >>

parse_vars == << nums_range, name, parse_op, parse_out >>
call_vars  == << seed, generator, sample, events, draws, first_draws, calls,
                gen_at_entry, gp_out >>
nts_vars   == << fs, array_kind, tmp_name, pending_exc, nts_out >>

\* Python's None and a present value, where a variable holds either.
None == << >>
Some(x) == << x >>

\* ------------------------------------------------------ Python values
\* A number: an int, or a bool (numbers.Number holds both; True == 1).
PyInt(n)  == [t |-> "int",  v |-> n]
PyBool(b) == [t |-> "bool", v |-> IF b THEN 1 ELSE 0]

\* Unary minus on a number: -True is the int -1, -False the int 0.
Neg(x) == [t |-> "int", v |-> 0 - x.v]

\* A value given to / returned by parse_range: a number, a tuple or a list.
Scalar(x)      == [kind |-> "number", num |-> x,        items |-> << >>]
PyTuple(items) == [kind |-> "tuple",  num |-> PyInt(0), items |-> items]
PyList(items)  == [kind |-> "list",   num |-> PyInt(0), items |-> items]

\* isinstance(value, numbers.Number)
IsNumber(value) == value.kind = "number"

\* Outcomes of a call: a returned value, or a raised exception with the
\* f-string message's parts (which message, the name and the value shown).
NoMsg == [which |-> "none", name |-> "none", shown |-> Scalar(PyInt(0))]
Returned(value) == [status |-> "returned", value |-> value,
                    exc |-> "none", msg |-> NoMsg]
Raised(exc, which, nm, shown) ==
    [status |-> "raised", value |-> Scalar(PyInt(0)), exc |-> exc,
     msg |-> [which |-> which, name |-> nm, shown |-> shown]]
NotCalled == [status |-> "none", value |-> Scalar(PyInt(0)),
              exc |-> "none", msg |-> NoMsg]

\* ----------------------------------------------------------- parse_range
\* Variants of parse_range with one slip each.
\* The single number is compared with "<= 0": zero is rejected.
parse_range_rejects_zero(value, nm) ==
    IF IsNumber(value)
    THEN IF value.num.v <= 0
         THEN Raised("ValueError", "single number must be positive", nm, value)
         ELSE Returned(PyTuple(<< Neg(value.num), value.num >>))
    ELSE IF Len(value.items) # 2
         THEN Raised("ValueError", "sequence must be of len 2", nm, value)
         ELSE IF value.items[1].v > value.items[2].v
              THEN Raised("ValueError",
                          "second value must be equal or greater", nm, value)
              ELSE Returned(value)

\* The pair is compared with ">=": equal bounds are rejected.
parse_range_strict_order(value, nm) ==
    IF IsNumber(value)
    THEN IF value.num.v < 0
         THEN Raised("ValueError", "single number must be positive", nm, value)
         ELSE Returned(PyTuple(<< Neg(value.num), value.num >>))
    ELSE IF Len(value.items) # 2
         THEN Raised("ValueError", "sequence must be of len 2", nm, value)
         ELSE IF value.items[1].v >= value.items[2].v
              THEN Raised("ValueError",
                          "second value must be equal or greater", nm, value)
              ELSE Returned(value)

\* The sign of the single number is not checked.
parse_range_no_sign_check(value, nm) ==
    IF IsNumber(value)
    THEN Returned(PyTuple(<< Neg(value.num), value.num >>))
    ELSE IF Len(value.items) # 2
         THEN Raised("ValueError", "sequence must be of len 2", nm, value)
         ELSE IF value.items[1].v > value.items[2].v
              THEN Raised("ValueError",
                          "second value must be equal or greater", nm, value)
              ELSE Returned(value)

\* An inverted pair is swapped instead of rejected.
parse_range_resorts(value, nm) ==
    IF IsNumber(value)
    THEN IF value.num.v < 0
         THEN Raised("ValueError", "single number must be positive", nm, value)
         ELSE Returned(PyTuple(<< Neg(value.num), value.num >>))
    ELSE IF Len(value.items) # 2
         THEN Raised("ValueError", "sequence must be of len 2", nm, value)
         ELSE IF value.items[1].v > value.items[2].v
              THEN Returned(PyTuple(<< value.items[2], value.items[1] >>))
              ELSE Returned(value)

\* Only sequences shorter than 2 are rejected; the bounds are the first
\* two elements.
parse_range_len_at_least_2(value, nm) ==
    IF IsNumber(value)
    THEN IF value.num.v < 0
         THEN Raised("ValueError", "single number must be positive", nm, value)
         ELSE Returned(PyTuple(<< Neg(value.num), value.num >>))
    ELSE IF Len(value.items) < 2
         THEN Raised("ValueError", "sequence must be of len 2", nm, value)
         ELSE IF value.items[1].v > value.items[2].v
              THEN Raised("ValueError",
                          "second value must be equal or greater", nm, value)
              ELSE Returned(value)

parse_range(value, nm) ==
    IF IsNumber(value)
    THEN IF value.num.v < 0
         THEN Raised("ValueError", "single number must be positive", nm, value)
         ELSE Returned(PyTuple(<< Neg(value.num), value.num >>))
    ELSE IF Len(value.items) # 2
         THEN Raised("ValueError", "sequence must be of len 2", nm, value)
         ELSE LET min_degree == value.items[1]
                  max_degree == value.items[2]
              IN  IF min_degree.v > max_degree.v
                  THEN Raised("ValueError",
                              "second value must be equal or greater", nm, value)
                  ELSE Returned(value)

\* A wrapper that passes the other wrapper's label.
parse_degrees_wrong_name(degrees) == parse_range(degrees, "translation")

parse_degrees(degrees) == parse_range(degrees, "degrees")

parse_translation(translation) == parse_range(translation, "translation")

\* ------------------------------------------------- inputs of the parsers
Ints == (0 - MaxInt) .. MaxInt
Numbers == { PyInt(n) : n \in Ints } \cup { PyBool(TRUE), PyBool(FALSE) }
IntSeqs == UNION { [1..n -> { PyInt(i) : i \in Ints }] : n \in 0..MaxLen }
ParseInputs == { Scalar(x) : x \in Numbers }
               \cup { PyTuple(s) : s \in IntSeqs }
               \cup { PyList(s) : s \in IntSeqs }
Names == { "degrees", "translation", "scales" }

\* ------------------------------------------- the process-wide generator
GeneratorStates == 0..(RngMod - 1)

\* torch.manual_seed(k): the state becomes a function of the seed alone.
manual_seed(k) == (2 * k + 1) % RngMod

\* One draw returns a number determined by the state and advances it.
DrawValue(g) == g
Advance(g) == (g + 1) % RngMod

\* The state after n draws.
RECURSIVE AdvanceN(_, _)
AdvanceN(g, n) == IF n = 0 THEN g ELSE AdvanceN(Advance(g), n - 1)

\* The samples; sample s makes the delegated augmentation draw s numbers.
Samples == 1..MaxDraws
NDraws(s) == s

\* Transform.__call__(sample): the base dispatch, which runs the concrete
\* augmentation; its random parameters are successive draws on the
\* process-wide generator.
DispatchDraws(g, s) == [i \in 1..NDraws(s) |-> DrawValue(AdvanceN(g, i - 1))]
DispatchGenerator(g, s) == AdvanceN(g, NDraws(s))

\* ------------------------------------------------------------ check_seed
\* Variants of check_seed with one slip each.
\* "if self.seed:" instead of "if self.seed is not None:": seed 0 is skipped.
check_seed_truthy(g) ==
    IF seed # None /\ seed # Some(0)
    THEN [generator |-> manual_seed(seed[1]),
          events |-> << [e |-> "manual_seed", arg |-> seed[1]] >>]
    ELSE [generator |-> g, events |-> << >>]

\* The seed is stored and never given to the generator.
check_seed_ignores_seed(g) == [generator |-> g, events |-> << >>]

\* check_seed: the effect on the generator g, and the calls made on it.
check_seed(g) ==
    IF seed # None
    THEN [generator |-> manual_seed(seed[1]),
          events |-> << [e |-> "manual_seed", arg |-> seed[1]] >>]
    ELSE [generator |-> g, events |-> << >>]

\* ------------------------------------------------------------ get_params
\* The value None as a returned value.
PyNone == [kind |-> "NoneType", num |-> PyInt(0), items |-> << >>]

\* A base get_params that fails fast.
get_params_raises == Raised("NotImplementedError", "none", "none", PyNone)

\* get_params: a static method whose body is "pass"; the abstractmethod
\* mark does not change what a call on the class does.
get_params == Returned(PyNone)

\* ----------------------------------------------------------- nib_to_sitk
\* The names a file can have in the directory of temporary files.
FileNames == { "tmp_a.nii", "tmp_b.nii", "tmp_c.nii" }

\* Leaving the with block removes the temporary file only when the block
\* ended without an exception.
exit_with_block_leaks_on_error(files, tmp, exc) ==
    IF exc = "None" THEN files \ { tmp } ELSE files

\* Leaving "with NamedTemporaryFile(...) as f": the file is closed and its
\* name removed, whether or not an exception is propagating.
exit_with_block(files, tmp, exc) == files \ { tmp }

CallInit ==
    /\ seed \in { None } \cup { Some(k) : k \in 0..MaxSeed }
    /\ generator \in GeneratorStates
    /\ pc = "idle"
    /\ sample = None
    /\ events = << >>
    /\ draws = << >>
    /\ first_draws = [s \in Samples |-> None]
    /\ calls = [s \in Samples |-> 0]
    /\ gen_at_entry = None
    /\ gp_out = NotCalled

NtsInit ==
    /\ fs \in SUBSET FileNames
    /\ array_kind = "none"
    /\ tmp_name = None
    /\ pending_exc = "None"
    /\ nts_out = "none"

ParseInit ==
    /\ nums_range \in ParseInputs
    /\ name \in Names
    /\ parse_op = "none"
    /\ parse_out = NotCalled

\* ------------------------------------------- the parsers as operations
ParseRange ==
    /\ parse_op = "none"
    /\ parse_op' = "parse_range"
    /\ parse_out' = parse_range(nums_range, name)
    /\ UNCHANGED << nums_range, name, pc, call_vars, nts_vars >>

ParseDegrees ==
    /\ parse_op = "none"
    /\ parse_op' = "parse_degrees"
    /\ parse_out' = parse_degrees(nums_range)
    /\ UNCHANGED << nums_range, name, pc, call_vars, nts_vars >>

ParseTranslation ==
    /\ parse_op = "none"
    /\ parse_op' = "parse_translation"
    /\ parse_out' = parse_translation(nums_range)
    /\ UNCHANGED << nums_range, name, pc, call_vars, nts_vars >>

\* The parsers applied to every input of the bounded sets, on one fixed
\* transform object.
InitParse ==
    /\ ParseInit
    /\ seed = None /\ generator = 0 /\ pc = "idle" /\ sample = None
    /\ events = << >> /\ draws = << >>
    /\ first_draws = [s \in Samples |-> None] /\ calls = [s \in Samples |-> 0]
    /\ gen_at_entry = None /\ gp_out = NotCalled
    /\ fs = {} /\ array_kind = "none" /\ tmp_name = None
    /\ pending_exc = "None" /\ nts_out = "none"

NextParse == ParseRange \/ ParseDegrees \/ ParseTranslation

SpecParse == InitParse /\ [][NextParse]_vars

\* ------------------------------------------------------------- __call__
\* transform(sample) is entered.
CallBegin(s) ==
    /\ pc = "idle"
    /\ calls[s] < MaxCalls
    /\ pc' = "check_seed"
    /\ sample' = Some(s)
    /\ events' = << >>
    /\ draws' = << >>
    /\ calls' = [calls EXCEPT ![s] = @ + 1]
    /\ gen_at_entry' = Some(generator)
    /\ UNCHANGED << seed, generator, first_draws, gp_out, parse_vars, nts_vars >>

\* self.check_seed()
CallCheckSeed ==
    /\ pc = "check_seed"
    /\ generator' = check_seed(generator).generator
    /\ events' = events \o check_seed(generator).events
    /\ pc' = "dispatch"
    /\ UNCHANGED << seed, sample, draws, first_draws, calls, gen_at_entry,
                    gp_out, parse_vars, nts_vars >>

\* return super().__call__(sample)
CallDispatch ==
    /\ pc = "dispatch"
    /\ events' = Append(events, [e |-> "dispatch", arg |-> sample[1]])
    /\ draws' = DispatchDraws(generator, sample[1])
    /\ generator' = DispatchGenerator(generator, sample[1])
    /\ first_draws' = IF first_draws[sample[1]] = None
                      THEN [first_draws EXCEPT ![sample[1]] = Some(draws')]
                      ELSE first_draws
    /\ pc' = "idle"
    /\ UNCHANGED << seed, sample, calls, gen_at_entry, gp_out, parse_vars,
                    nts_vars >>

\* Any other code of the process uses the generator between two calls:
\* it draws from it or seeds it, leaving it in any state.
OtherGeneratorUse(g) ==
    /\ pc = "idle"
    /\ g # generator
    /\ generator' = g
    /\ UNCHANGED << seed, pc, sample, events, draws, first_draws, calls,
                    gen_at_entry, gp_out, parse_vars, nts_vars >>

\* RandomTransform.get_params()
GetParams ==
    /\ pc = "idle"
    /\ gp_out' = get_params
    /\ UNCHANGED << seed, generator, pc, sample, events, draws, first_draws,
                    calls, gen_at_entry, parse_vars, nts_vars >>

\* A transform constructed with any seed, in a process whose generator is
\* in any state.
Init ==
    /\ CallInit
    /\ nums_range = Scalar(PyInt(0)) /\ name = "degrees"
    /\ parse_op = "none" /\ parse_out = NotCalled
    /\ fs = {} /\ array_kind = "none" /\ tmp_name = None
    /\ pending_exc = "None" /\ nts_out = "none"

Next ==
    \/ \E s \in Samples : CallBegin(s)
    \/ CallCheckSeed
    \/ CallDispatch
    \/ \E g \in GeneratorStates : OtherGeneratorUse(g)
    \/ GetParams

Spec == Init /\ [][Next]_vars

\* ---------------------------------------------------------- nib_to_sitk
\* nib_to_sitk(array, affine) is entered with a tensor or an ndarray.
NtsBegin(kind) ==
    /\ pc = "idle"
    /\ pc' = "nts_convert"
    /\ array_kind' = kind
    /\ tmp_name' = None
    /\ pending_exc' = "None"
    /\ nts_out' = "none"
    /\ UNCHANGED << fs, parse_vars, call_vars >>

\* if isinstance(array, torch.Tensor): array = array.numpy()
\* (numpy() can raise, e.g. on a tensor that requires grad).
NtsConvert(ok) ==
    /\ pc = "nts_convert"
    /\ IF array_kind = "tensor" /\ ~ok
       THEN /\ pc' = "idle"
            /\ nts_out' = "raised"
            /\ pending_exc' = "RuntimeError"
       ELSE /\ pc' = "nts_open"
            /\ UNCHANGED << nts_out, pending_exc >>
    /\ UNCHANGED << fs, array_kind, tmp_name, parse_vars, call_vars >>

\* with NamedTemporaryFile(suffix='.nii') as f: a file with a name that no
\* file has is created; without a free name the creation raises.
NtsOpen ==
    /\ pc = "nts_open"
    /\ IF FileNames \ fs = {}
       THEN /\ pc' = "idle"
            /\ nts_out' = "raised"
            /\ pending_exc' = "FileExistsError"
            /\ UNCHANGED << fs, tmp_name >>
       ELSE /\ \E f \in FileNames \ fs :
                  /\ fs' = fs \cup { f }
                  /\ tmp_name' = Some(f)
            /\ pc' = "nts_write"
            /\ UNCHANGED << nts_out, pending_exc >>
    /\ UNCHANGED << array_kind, parse_vars, call_vars >>

\* nib.Nifti1Image(array, affine).to_filename(f.name): writes or raises.
NtsWrite(ok) ==
    /\ pc = "nts_write"
    /\ IF ok
       THEN pc' = "nts_read" /\ UNCHANGED pending_exc
       ELSE pc' = "nts_exit" /\ pending_exc' = "WriteError"
    /\ UNCHANGED << fs, array_kind, tmp_name, nts_out, parse_vars, call_vars >>

\* image = sitk.ReadImage(f.name): reads or raises.
NtsRead(ok) ==
    /\ pc = "nts_read"
    /\ pc' = "nts_exit"
    /\ pending_exc' = IF ok THEN "None" ELSE "ReadError"
    /\ UNCHANGED << fs, array_kind, tmp_name, nts_out, parse_vars, call_vars >>

\* The with block is left; then "return image", or the exception goes on.
NtsExit ==
    /\ pc = "nts_exit"
    /\ fs' = exit_with_block(fs, tmp_name[1], pending_exc)
    /\ nts_out' = IF pending_exc = "None" THEN "returned" ELSE "raised"
    /\ pc' = "idle"
    /\ UNCHANGED << array_kind, tmp_name, pending_exc, parse_vars, call_vars >>

InitNib ==
    /\ NtsInit
    /\ pc = "idle"
    /\ seed = None /\ generator = 0 /\ sample = None
    /\ events = << >> /\ draws = << >>
    /\ first_draws = [s \in Samples |-> None] /\ calls = [s \in Samples |-> 0]
    /\ gen_at_entry = None /\ gp_out = NotCalled
    /\ nums_range = Scalar(PyInt(0)) /\ name = "degrees"
    /\ parse_op = "none" /\ parse_out = NotCalled

NextNib ==
    \/ \E kind \in { "tensor", "ndarray" } : NtsBegin(kind)
    \/ \E ok \in BOOLEAN : NtsConvert(ok)
    \/ NtsOpen
    \/ \E ok \in BOOLEAN : NtsWrite(ok)
    \/ \E ok \in BOOLEAN : NtsRead(ok)
    \/ NtsExit

SpecNib == InitNib /\ [][NextNib]_vars

\* ================================================== properties: parsers
\* C1: for every number s >= 0 (zero included) and every name,
\* parse_range(s, name) returns the tuple (-s, s) and raises nothing.
C1_NonNegativeScalar ==
    (parse_op = "parse_range" /\ IsNumber(nums_range) /\ nums_range.num.v >= 0)
    => /\ parse_out.status = "returned"
       /\ parse_out.exc = "none"
       /\ parse_out.value.kind = "tuple"
       /\ Len(parse_out.value.items) = 2
       /\ parse_out.value.items[1].v = 0 - nums_range.num.v
       /\ parse_out.value.items[2] = nums_range.num

\* parse_range was applied to the number 0 and returned.
C1_Witness ==
    /\ parse_op = "parse_range"
    /\ nums_range = Scalar(PyInt(0))
    /\ parse_out.status = "returned"

\* C2: for every 2-element sequence (a, b) with a <= b (a = b included),
\* parse_range returns its argument unchanged: same container, same
\* elements, same order.
C2_OrderedPairUnchanged ==
    (/\ parse_op = "parse_range"
     /\ ~IsNumber(nums_range)
     /\ Len(nums_range.items) = 2
     /\ nums_range.items[1].v <= nums_range.items[2].v)
    => parse_out = Returned(nums_range)

\* parse_range was applied to a list of two equal bounds and returned.
C2_Witness ==
    /\ parse_op = "parse_range"
    /\ nums_range = PyList(<< PyInt(1), PyInt(1) >>)
    /\ parse_out.status = "returned"

\* C3: for every number s < 0, parse_range raises ValueError and returns
\* no range.
C3_NegativeScalarRaises ==
    (parse_op = "parse_range" /\ IsNumber(nums_range) /\ nums_range.num.v < 0)
    => /\ parse_out.status = "raised"
       /\ parse_out.exc = "ValueError"

\* parse_range was applied to a negative number and raised.
C3_Witness ==
    /\ parse_op = "parse_range"
    /\ nums_range = Scalar(PyInt(0 - 1))
    /\ parse_out.status = "raised"

\* C4: for every 2-element sequence (a, b) with a > b, parse_range raises
\* ValueError; it neither returns the pair nor the pair re-sorted.
C4_InvertedPairRaises ==
    (/\ parse_op = "parse_range"
     /\ ~IsNumber(nums_range)
     /\ Len(nums_range.items) = 2
     /\ nums_range.items[1].v > nums_range.items[2].v)
    => /\ parse_out.status = "raised"
       /\ parse_out.exc = "ValueError"

\* parse_range was applied to an inverted pair and raised.
C4_Witness ==
    /\ parse_op = "parse_range"
    /\ nums_range = PyTuple(<< PyInt(1), PyInt(0) >>)
    /\ parse_out.status = "raised"

\* C5: for every sequence whose length is not 2 (0, 1, 3 or more),
\* parse_range raises ValueError, whatever its elements and their order.
C5_WrongLengthRaises ==
    (/\ parse_op = "parse_range"
     /\ ~IsNumber(nums_range)
     /\ Len(nums_range.items) # 2)
    => /\ parse_out.status = "raised"
       /\ parse_out.exc = "ValueError"

\* parse_range was applied to a sorted sequence of three elements and raised.
C5_Witness ==
    /\ parse_op = "parse_range"
    /\ ~IsNumber(nums_range)
    /\ Len(nums_range.items) = 3
    /\ nums_range.items[1].v < nums_range.items[2].v
    /\ nums_range.items[2].v < nums_range.items[3].v
    /\ parse_out.status = "raised"

\* C9: parse_degrees(x) has the outcome of parse_range(x, 'degrees') and
\* parse_translation(x) the outcome of parse_range(x, 'translation'): the
\* same returned range, or the same error with the same message.
C9_WrappersAgree ==
    /\ parse_op = "parse_degrees"
       => parse_out = parse_range(nums_range, "degrees")
    /\ parse_op = "parse_translation"
       => parse_out = parse_range(nums_range, "translation")

\* parse_degrees was applied to an input that parse_range rejects, so the
\* outcome carries the label.
C9_Witness ==
    /\ parse_op = "parse_degrees"
    /\ parse_out.status = "raised"
    /\ parse_out.msg.name = "degrees"

\* ====================================== properties: seeding and dispatch
\* C6: with a seed that is not None, whatever was done to the process-wide
\* generator before, every completed call on a sample has drawn the same
\* sequence of numbers as the first call on that sample.
C6_SeededCallsRepeatDraws ==
    (seed # None /\ pc = "idle" /\ sample # None)
    => first_draws[sample[1]] = Some(draws)

\* A second call on the same sample has completed on a seeded transform,
\* and the generator was not in the seeded state when that call began.
C6_Witness ==
    /\ seed # None
    /\ pc = "idle"
    /\ sample # None
    /\ calls[sample[1]] >= 2
    /\ gen_at_entry # Some(manual_seed(seed[1]))
    /\ first_draws[sample[1]] = Some(draws)

\* C10: a completed call has called the base dispatch exactly once, as its
\* last step; with a seed that is not None (0 included) the generator was
\* reset to that seed before the dispatch and is in the seeded state when
\* the dispatch is called; with seed None nothing reset the generator.
C10_DispatchOnceAfterSeed ==
    /\ (pc = "idle" /\ sample # None)
       => /\ Cardinality({ i \in DOMAIN events : events[i].e = "dispatch" }) = 1
          /\ seed # None
             => events = << [e |-> "manual_seed", arg |-> seed[1]],
                            [e |-> "dispatch", arg |-> sample[1]] >>
          /\ seed = None
             => events = << [e |-> "dispatch", arg |-> sample[1]] >>
    /\ pc = "dispatch"
       => /\ \A i \in DOMAIN events : events[i].e # "dispatch"
          /\ seed # None => generator = manual_seed(seed[1])
          /\ seed = None => Some(generator) = gen_at_entry

\* A call has completed on a transform constructed with seed 0, entered
\* with the generator in another state than the seeded one.
C10_Witness ==
    /\ seed = Some(0)
    /\ pc = "idle"
    /\ sample # None
    /\ gen_at_entry # Some(manual_seed(0))
    /\ Len(events) = 2

\* C8 as stated: get_params() on the base class raises NotImplementedError
\* and does not return normally.
C8_BaseGetParamsRaises ==
    gp_out.status # "none"
    => (gp_out.status = "raised" /\ gp_out.exc = "NotImplementedError")

\* C8 amended: get_params() on the base class returns None normally and
\* raises nothing.
C8_BaseGetParamsReturnsNone ==
    gp_out.status # "none"
    => (gp_out.status = "returned" /\ gp_out.value = PyNone
        /\ gp_out.exc = "none")

\* get_params() was called on the base class.
C8_Witness == gp_out.status = "returned"

\* =============================================== properties: nib_to_sitk
\* C7: once nib_to_sitk has returned or raised, the temporary file it
\* created does not exist, whichever of the write and the read failed.
C7_TemporaryFileRemoved ==
    (pc = "idle" /\ nts_out \in { "returned", "raised" } /\ tmp_name # None)
    => tmp_name[1] \notin fs

\* nib_to_sitk created its temporary file and then raised.
C7_Witness ==
    /\ pc = "idle"
    /\ nts_out = "raised"
    /\ tmp_name # None
    /\ pending_exc \in { "WriteError", "ReadError" }

====
